---- MODULE Spec2Model ----
(***************************************************************************)
(* Model of jest-allure-circus: the AllureReporter context stack manager   *)
(* (src/src/allure-reporter.ts) and the event adapter that drives it       *)
(* (src/src/allure-base-environment.ts).                                   *)
(*                                                                         *)
(* JavaScript strings are modelled as sequences of tokens (a token is a    *)
(* run of characters that the code never looks inside); undefined is the   *)
(* one-token sequence Undef.  Report-sink objects (allure-js-commons       *)
(* groups, tests, steps, executables) are rows of the sequences groups,    *)
(* results, stepItems and fixtures; a stack holds row numbers.             *)
(***************************************************************************)
EXTENDS Integers, Sequences, FiniteSets, TLC

\* ------------------------------------------------------------------ bounds
\* the number of reporter calls a behaviour of Spec makes
MaxCalls == 5
\* the number of runner events a behaviour of AdapterSpec delivers
MaxEvents == 9
\* the number of reporter calls a behaviour of TestCaseSpec makes
MaxFileCalls == 4

\* ------------------------------------------------------------ JS strings
Undef == <<"#undefined">>
ObjectValue == <<"#object">>
NL == "\n"
ESC == "\\u001b[31m"

IsString(v) == v # Undef /\ v # ObjectValue

\* JS truthiness of a string-or-undefined value
Truthy(v) == v # Undef /\ v # <<>>

\* String.prototype.includes / indexOf: first position where p occurs in s, 0 if none
RECURSIVE IndexFrom(_, _, _)
IndexFrom(s, p, i) ==
    IF i + Len(p) - 1 > Len(s) THEN 0
    ELSE IF SubSeq(s, i, i + Len(p) - 1) = p THEN i
    ELSE IndexFrom(s, p, i + 1)

Includes(s, p) == IndexFrom(s, p, 1) # 0

\* String.prototype.replace with a string pattern: the first occurrence only
Replace(s, p, r) ==
    LET i == IndexFrom(s, p, 1)
    IN IF i = 0 THEN s
       ELSE SubSeq(s, 1, i - 1) \o r \o SubSeq(s, i + Len(p), Len(s))

\* String.prototype.split with a one-token separator
RECURSIVE Split(_, _)
Split(s, sep) ==
    LET i == IndexFrom(s, <<sep>>, 1)
    IN IF i = 0 THEN <<s>>
       ELSE <<SubSeq(s, 1, i - 1)>> \o Split(SubSeq(s, i + 1, Len(s)), sep)

\* Array.prototype.join; an undefined element joins as the empty string
RECURSIVE Join(_, _)
Join(parts, sep) ==
    IF parts = <<>> THEN <<>>
    ELSE LET h == IF Head(parts) = Undef THEN <<>> ELSE Head(parts)
         IN IF Len(parts) = 1 THEN h ELSE h \o sep \o Join(Tail(parts), sep)

RECURSIVE DropTokens(_, _)
DropTokens(s, drop) ==
    IF s = <<>> THEN <<>>
    ELSE IF Head(s) \in drop THEN DropTokens(Tail(s), drop)
    ELSE <<Head(s)>> \o DropTokens(Tail(s), drop)

\* replaceANSITags: every escape sequence the pattern matches is removed
replaceANSITags(entry) == DropTokens(entry, {ESC})

\* --------------------------------------------------------- error values
\* A thrown value: an object with optional name / message / stack /
\* matcherResult.message, a primitive string, or an array of arrays of them.
ErrorObject(name, message, stack, matcher) ==
    [kind |-> "object", name |-> name, message |-> message, stack |-> stack,
     matcher |-> matcher, text |-> Undef, items |-> <<>>]

ErrorString(text) ==
    [kind |-> "string", name |-> Undef, message |-> Undef, stack |-> Undef,
     matcher |-> Undef, text |-> text, items |-> <<>>]

ErrorArray(items) ==
    [kind |-> "array", name |-> Undef, message |-> Undef, stack |-> Undef,
     matcher |-> Undef, text |-> Undef, items |-> items]

NoErrorArg == [kind |-> "undefined", name |-> Undef, message |-> Undef, stack |-> Undef,
               matcher |-> Undef, text |-> Undef, items |-> <<>>]

\* _.flattenDeep(error)[0] for an array of arrays
RECURSIVE FlattenDeep(_)
FlattenDeep(items) ==
    IF items = <<>> THEN <<>>
    ELSE LET h == Head(items)
         IN (IF h.kind = "array" THEN FlattenDeep(h.items) ELSE <<h>>)
            \o FlattenDeep(Tail(items))

Statuses == {"passed", "failed", "broken", "skipped"}
NoStatus == "none"
PlaceholderMessage == <<"Error. Expand for more details.">>
NoStackTrace == <<"No stack trace provided">>

Triple(status, message, trace) == [status |-> status, message |-> message, trace |-> trace]

\* lines 287-296: BROKEN with name and stack-or-message, or FAILED with the
\* first two lines of the matcher message and stack-or-remaining-lines
Classify(e) ==
    IF e.matcher # Undef
    THEN LET lines == Split(e.matcher, NL)
         IN Triple("failed",
                   Join(<<lines[1], IF Len(lines) >= 2 THEN lines[2] ELSE Undef>>, <<NL>>),
                   IF Truthy(e.stack) THEN e.stack
                   ELSE Join(IF Len(lines) >= 3 THEN SubSeq(lines, 3, Len(lines)) ELSE <<>>,
                             <<NL>>))
    ELSE Triple("broken", e.name, IF Truthy(e.stack) THEN e.stack ELSE e.message)

\* lines 297-300: an empty message is replaced by the trace
Promote(e, r) ==
    IF ~Truthy(r.message) /\ Truthy(r.trace)
    THEN Triple(r.status, r.trace,
                IF e.stack = Undef THEN Undef ELSE Replace(e.stack, r.trace, NoStackTrace))
    ELSE r

\* the trace kept as it is, message included
Strip_keep(r) == r

\* lines 301-303: the message is cut out of a trace that includes it
Strip(r) ==
    IF r.trace # Undef /\ r.message # Undef /\ Includes(r.trace, r.message)
    THEN Triple(r.status, r.message, Replace(r.trace, r.message, <<>>))
    ELSE r

\* lines 304-307: still no message: the placeholder, and the raw error as trace
Placeholder(e, r) ==
    IF ~Truthy(r.message)
    THEN Triple(r.status, PlaceholderMessage,
                IF e.kind = "string" THEN e.text ELSE ObjectValue)
    ELSE r

\* lines 308-312: replaceANSITags throws on anything but a string
Cleaned(r) ==
    IF ~IsString(r.message) \/ ~IsString(r.trace)
    THEN [thrown |-> TRUE, status |-> NoStatus, message |-> Undef, trace |-> Undef]
    ELSE [thrown |-> FALSE, status |-> r.status,
          message |-> replaceANSITags(r.message), trace |-> replaceANSITags(r.trace)]

\* lines 283-286: the first element of a deeply flattened array
FirstError(error) ==
    IF error.kind # "array" THEN error
    ELSE IF FlattenDeep(error.items) = <<>> THEN NoErrorArg
    ELSE FlattenDeep(error.items)[1]

handleError(error) ==
    IF FirstError(error).kind = "undefined"
    THEN [thrown |-> TRUE, status |-> NoStatus, message |-> Undef, trace |-> Undef]
    ELSE Cleaned(Placeholder(FirstError(error),
                 Strip(Promote(FirstError(error), Classify(FirstError(error))))))

\* ------------------------------------------------------- runner inputs
\* jest.Circus.TestEntry: id is the object's identity, fn says whether the
\* test function is available, pragmas are the docblock pragmas of its source.
TestEntry(id, name, mode, fn, pragmas) ==
    [id |-> id, name |-> name, mode |-> mode, fn |-> fn, pragmas |-> pragmas]

\* one docblock pragma as jest-docblock returns it: a string, or an array of
\* strings when the pragma is repeated
Pragma(name, isArray, values) == [name |-> name, isArray |-> isArray, values |-> values]

Entries ==
    { TestEntry(1, <<"adds">>, "run", TRUE, <<>>),
      TestEntry(2, <<"adds">>, "skip", TRUE, <<>>),
      TestEntry(3, <<"subtracts">>, "todo", FALSE, <<>>) }

\* the describeBlock.tests argument of startSuite: absent, or an array of entries
EntryById(i) == CHOOSE e \in Entries : e.id = i
NoTests == [given |-> FALSE, list |-> <<>>]
Tests(list) == [given |-> TRUE, list |-> list]
TestLists ==
    { NoTests, Tests(<<EntryById(1), EntryById(3)>>), Tests(<<EntryById(1), EntryById(2)>>) }

TestPaths == { <<"a", "/", "b", "/", "c.spec.ts">> }
WorkerIds == { Undef }
HookTypes == { "beforeAll", "beforeEach", "afterEach", "afterAll" }
SuiteNames == { <<"math.spec.ts">> }

\* Labels accumulated for concurrent tests: (name, value, index); obj is the
\* identity of the label object, index -1 stands for a label without index.
NoIndex == 0 - 1
Label(obj, name, value, index) ==
    [obj |-> obj, name |-> name, value |-> value, index |-> index]

LabelPool ==
    { Label(1, "severity", <<"critical">>, 0),
      Label(2, "severity", <<"minor">>, 1) }

AssertionError ==
    ErrorObject(<<"Error">>, <<"expect">>, Undef,
                <<"Expected: 1", NL, "Received: 2", NL, "extra line">>)
GenericError ==
    ErrorObject(<<"TypeError">>, <<"boom">>, <<"TypeError", ": ", "boom", NL, " at x">>, Undef)
BareMessageError == ErrorObject(Undef, <<"boom">>, Undef, Undef)

Errors == { AssertionError, GenericError, ErrorArray(<<ErrorArray(<<GenericError>>)>>),
            BareMessageError }

\* ------------------------------------------------------ reporter state
VARIABLES
    suites,             \* this.suites: stack of group rows
    tests,              \* this.tests: stack of result rows
    steps,              \* this.steps: stack of step rows
    currentExecutable,  \* this.currentExecutable: fixture row, 0 for null
    testNames,          \* this.testNames
    labels,             \* this.labels
    groups,             \* sink: AllureGroup objects
    results,            \* sink: AllureTest objects
    stepItems,          \* sink: AllureStep objects
    fixtures,           \* sink: before / after executables
    recorded,           \* ghost: identity of the entry behind each testNames element
    closed,             \* ghost: what the last call closed on the sink, in order
    thrown,             \* the Error message the last call threw, NoThrow if it returned
    lastCall,           \* the last operation called, with its argument
    calls,              \* how many calls / events have been made so far
    runner,             \* the runner's position in the event stream (adapter only)
    given,              \* the inputs a behaviour was started with
    returned            \* what the last call of a pure function returned

vars == << suites, tests, steps, currentExecutable, testNames, labels, groups,
           results, stepItems, fixtures, recorded, closed, thrown, lastCall, calls,
           runner, given, returned >>

NoThrow == ""
Null == 0

\* the reporter and its sink as one value, so that a handler can chain calls
State ==
    [suites |-> suites, tests |-> tests, steps |-> steps,
     currentExecutable |-> currentExecutable, testNames |-> testNames,
     labels |-> labels, groups |-> groups, results |-> results,
     stepItems |-> stepItems, fixtures |-> fixtures, recorded |-> recorded,
     closed |-> <<>>, thrown |-> NoThrow]

Becomes(s) ==
    /\ suites' = s.suites
    /\ tests' = s.tests
    /\ steps' = s.steps
    /\ currentExecutable' = s.currentExecutable
    /\ testNames' = s.testNames
    /\ labels' = s.labels
    /\ groups' = s.groups
    /\ results' = s.results
    /\ stepItems' = s.stepItems
    /\ fixtures' = s.fixtures
    /\ recorded' = s.recorded
    /\ closed' = s.closed
    /\ thrown' = s.thrown

Throw(s, message) == [s EXCEPT !.thrown = message]

\* run g on the state f left, unless f threw
Then(s, g(_)) == IF s.thrown # NoThrow THEN s ELSE g(s)

Top(stack) == stack[Len(stack)]
Pop(stack) == SubSeq(stack, 1, Len(stack) - 1)

currentSuite(s) == IF Len(s.suites) > 0 THEN Top(s.suites) ELSE Null
currentStep(s) == IF Len(s.steps) > 0 THEN Top(s.steps) ELSE Null
currentTest(s) == IF Len(s.tests) > 0 THEN Top(s.tests) ELSE Null

pushStep(s, step) == [s EXCEPT !.steps = Append(@, step)]
popStep(s) == [s EXCEPT !.steps = Pop(@)]
pushTest(s, test) == [s EXCEPT !.tests = Append(@, test)]
popTest(s) == [s EXCEPT !.tests = Pop(@)]
pushSuite(s, suite) == [s EXCEPT !.suites = Append(@, suite)]
popSuite(s) == [s EXCEPT !.suites = Pop(@)]

\* ------------------------------------------------------------ the sink
EmptyDetails == [message |-> Undef, trace |-> Undef]

\* scope.startGroup(name): a new group under the current suite or the runtime
StartGroup(s, name) ==
    [s EXCEPT !.groups = Append(@, [name |-> name, parent |-> currentSuite(s), ended |-> 0])]

\* suite.startTest(name): a new result, stage pending, no status
StartTest(s, test) ==
    [s EXCEPT !.results =
        Append(@, [name |-> test.name, entry |-> test.id, suite |-> currentSuite(s),
                   fullName |-> Undef, historyId |-> Undef, description |-> "none",
                   stage |-> "pending", status |-> NoStatus,
                   statusDetails |-> EmptyDetails, labels |-> <<>>, links |-> <<>>,
                   ended |-> 0])]

\* suite.addBefore() / suite.addAfter(): a new fixture, stage pending
AddFixture(s, kind) ==
    [s EXCEPT !.fixtures =
        Append(@, [kind |-> kind, suite |-> currentSuite(s), stage |-> "pending",
                   status |-> NoStatus, statusDetails |-> EmptyDetails])]

\* test.addLabel / test.addLink push onto the result's arrays
addLabel(s, t, name, value) ==
    [s EXCEPT !.results[t].labels = Append(@, <<name, value>>)]

addLink(s, t, url, name, type) ==
    [s EXCEPT !.results[t].links = Append(@, [url |-> url, name |-> name, type |-> type])]

RECURSIVE EndEach(_, _)
\* x.endStep() / x.endTest() for each row of a stack, in order
EndEach(rows, stack) ==
    IF stack = <<>> THEN rows
    ELSE EndEach([rows EXCEPT ![Head(stack)].ended = @ + 1], Tail(stack))

\* the sink calls endStep / endTest / endGroup make, as the sink sees them
Closes(kind, stack) == [i \in DOMAIN stack |-> [kind |-> kind, row |-> stack[i]]]

\* ------------------------------------------------------- AllureReporter
addCodeInReport == TRUE
jiraUrl == <<"https://jira/">>
tmsUrl == <<"https://tms/">>
pathDelimiter == "/"

\* value instanceof String: jest-docblock yields primitive strings
InstanceOfString(value) == FALSE

\* setAllureLabelsAndLinks with no epic label for a milestone
setAllureLabelsAndLinks_noEpic(s, t, labelName, value, index) ==
    IF index = NoIndex
       \/ (index + 1 \in DOMAIN s.testNames /\ s.results[t].name = s.testNames[index + 1])
    THEN CASE labelName = "issue" -> addLink(s, t, jiraUrl \o value, value, "issue")
           [] labelName = "tms" -> addLink(s, t, tmsUrl \o value, value, "tms")
           [] labelName \in {"tag", "tags"} -> addLabel(s, t, "tag", value)
           [] OTHER -> addLabel(s, t, labelName, value)
    ELSE s

setAllureLabelsAndLinks(s, t, labelName, value, index) ==
    IF index = NoIndex
       \/ (index + 1 \in DOMAIN s.testNames /\ s.results[t].name = s.testNames[index + 1])
    THEN CASE labelName = "issue" -> addLink(s, t, jiraUrl \o value, value, "issue")
           [] labelName = "tms" -> addLink(s, t, tmsUrl \o value, value, "tms")
           [] labelName \in {"tag", "tags"} -> addLabel(s, t, "tag", value)
           [] labelName = "milestone" ->
                addLabel(addLabel(s, t, labelName, value), t, "epic", value)
           [] OTHER -> addLabel(s, t, labelName, value)
    ELSE s

RECURSIVE ApplyValues(_, _, _, _)
\* for (const v of value) setAllureLabelsAndLinks(currentTest, pragma, v)
ApplyValues(s, t, name, values) ==
    IF values = <<>> THEN s
    ELSE ApplyValues(setAllureLabelsAndLinks(s, t, name, Head(values), NoIndex),
                     t, name, Tail(values))

RECURSIVE setAllureReportPragmas(_, _, _)
setAllureReportPragmas(s, t, pragmas) ==
    IF pragmas = <<>> THEN s
    ELSE LET p == Head(pragmas)
             split == ~p.isArray /\ InstanceOfString(p.values[1])
                        /\ Includes(p.values[1], <<",">>)
             values == IF split THEN Split(p.values[1], ",") ELSE p.values
         IN setAllureReportPragmas(
                IF p.isArray \/ split
                THEN ApplyValues(s, t, p.name, values)
                ELSE setAllureLabelsAndLinks(s, t, p.name, p.values[1], NoIndex),
                t, Tail(pragmas))

addSuiteLabelsToTestCase(s, t, testPath) ==
    LET pathsArray == Split(testPath, pathDelimiter)
        parentSuite == pathsArray[1]
        rest == Tail(pathsArray)
        subSuite == IF rest = <<>> THEN Undef ELSE rest[Len(rest)]
        middle == IF rest = <<>> THEN <<>> ELSE SubSeq(rest, 1, Len(rest) - 1)
        s1 == IF Truthy(parentSuite)
              THEN addLabel(addLabel(s, t, "parentSuite", parentSuite),
                            t, "package", parentSuite)
              ELSE s
        s2 == IF Len(middle) > 0
              THEN addLabel(s1, t, "suite", Join(middle, <<" > ">>))
              ELSE s1
    IN IF Truthy(subSuite) THEN addLabel(s2, t, "subSuite", subSuite) ELSE s2

\* Array.from(new Set(labels)): one element per label object, in first-seen order
RECURSIVE SetOf(_)
SetOf(ls) ==
    IF ls = <<>> THEN <<>>
    ELSE LET init == SetOf(SubSeq(ls, 1, Len(ls) - 1))
             last == ls[Len(ls)]
         IN IF \E i \in DOMAIN init : init[i] = last THEN init ELSE Append(init, last)

RECURSIVE AttachFrom(_, _, _)
AttachFrom(s, t, arr) ==
    IF arr = <<>> THEN s
    ELSE AttachFrom(
            setAllureLabelsAndLinks(s, t, Head(arr).name, Head(arr).value, Head(arr).index),
            t, Tail(arr))

attachLabelsInConcurrent(s, t, ls) == AttachFrom(s, t, SetOf(ls))

startSuite(s, suiteName, tl) ==
    LET s1 == StartGroup(s, IF suiteName = Undef THEN <<"Global">> ELSE suiteName)
        s2 == pushSuite(s1, Len(s1.groups))
    IN IF tl.given
       THEN [s2 EXCEPT !.testNames = @ \o [i \in DOMAIN tl.list |-> tl.list[i].name],
                       !.recorded = @ \o [i \in DOMAIN tl.list |-> tl.list[i].id]]
       ELSE s2

startTestFile(s, suiteName) == startSuite(s, suiteName, NoTests)

\* endSuite without the check for an open suite
endSuite_lenient(s) ==
    LET s1 == [s EXCEPT !.stepItems = EndEach(@, s.steps),
                        !.closed = @ \o Closes("step", s.steps)]
        s2 == [s1 EXCEPT !.results = EndEach(@, s.tests),
                         !.closed = @ \o Closes("test", s.tests)]
    IN IF currentSuite(s) = Null THEN s2
       ELSE popSuite([s2 EXCEPT !.groups[currentSuite(s)].ended = @ + 1,
                                !.closed = @ \o Closes("suite", <<currentSuite(s)>>)])

\* endSuite closing the suite before its tests and steps
endSuite_suiteFirst(s) ==
    IF currentSuite(s) = Null
    THEN Throw(s, "endSuite called while no suite is running")
    ELSE LET s1 == [s EXCEPT !.groups[currentSuite(s)].ended = @ + 1,
                             !.closed = @ \o Closes("suite", <<currentSuite(s)>>)]
             s2 == [s1 EXCEPT !.results = EndEach(@, s.tests),
                              !.closed = @ \o Closes("test", s.tests)]
             s3 == [s2 EXCEPT !.stepItems = EndEach(@, s.steps),
                              !.closed = @ \o Closes("step", s.steps)]
         IN popSuite(s3)

endSuite(s) ==
    IF currentSuite(s) = Null
    THEN Throw(s, "endSuite called while no suite is running")
    ELSE LET s1 == [s EXCEPT !.stepItems = EndEach(@, s.steps),
                             !.closed = @ \o Closes("step", s.steps)]
             s2 == [s1 EXCEPT !.results = EndEach(@, s.tests),
                              !.closed = @ \o Closes("test", s.tests)]
             s3 == [s2 EXCEPT !.groups[currentSuite(s)].ended = @ + 1,
                              !.closed = @ \o Closes("suite", <<currentSuite(s)>>)]
         IN popSuite(s3)

RECURSIVE EndTestFileFrom(_, _)
\* for (const _ of this.suites) this.endSuite(): the array iterator re-reads
\* the length of the array that endSuite is shortening
EndTestFileFrom(s, i) ==
    IF i < Len(s.suites) /\ s.thrown = NoThrow
    THEN EndTestFileFrom(endSuite(s), i + 1)
    ELSE s

endTestFile(s) == EndTestFileFrom(s, 0)

startHook(s, type) ==
    LET suite == currentSuite(s)
        isBefore == type \in {"beforeAll", "beforeEach"}
        isAfter == type \in {"afterAll", "afterEach"}
        s1 == IF suite # Null /\ isBefore
              THEN LET a == AddFixture(s, "before")
                   IN [a EXCEPT !.currentExecutable = Len(a.fixtures)]
              ELSE s
    IN IF suite # Null /\ isAfter
       THEN LET a == AddFixture(s1, "after")
            IN [a EXCEPT !.currentExecutable = Len(a.fixtures)]
       ELSE s1

\* if (error): undefined and the empty string are falsy
ErrorGiven(error) ==
    error.kind # "undefined" /\ ~(error.kind = "string" /\ error.text = <<>>)

endHook(s, error) ==
    IF s.currentExecutable = Null
    THEN Throw(s, "endHook called while no executable is running")
    ELSE IF ErrorGiven(error)
    THEN LET r == handleError(error)
         IN IF r.thrown THEN Throw(s, "TypeError")
            ELSE [s EXCEPT !.fixtures[s.currentExecutable] =
                    [@ EXCEPT !.status = r.status,
                              !.statusDetails = [message |-> r.message, trace |-> r.trace],
                              !.stage = "finished"]]
    ELSE [s EXCEPT !.fixtures[s.currentExecutable] =
            [@ EXCEPT !.status = "passed", !.stage = "finished"]]

\* createHash('md5').update(text).digest('hex')
md5(text) == <<"md5">> \o text

\* startTestCase with the entry's mode hashed into the historyId
startTestCase_byEntry(s, test, workerId, testPath) ==
    IF currentSuite(s) = Null
    THEN Throw(s, "startTestCase called while no suite is running")
    ELSE LET s0 == StartTest(s, test)
             t == Len(s0.results)
             s1 == [s0 EXCEPT !.results[t] =
                        [@ EXCEPT !.fullName = test.name,
                                  !.historyId =
                                      md5(testPath \o <<".">> \o test.name \o <<test.mode>>),
                                  !.stage = "running"]]
             s2 == IF addCodeInReport
                   THEN IF test.fn
                        THEN [setAllureReportPragmas(s1, t, test.pragmas)
                                EXCEPT !.results[t].description = "code"]
                        ELSE [s1 EXCEPT !.results[t].description = "unavailable"]
                   ELSE s1
             s3 == IF Truthy(workerId) THEN addLabel(s2, t, "thread", workerId) ELSE s2
             s4 == addSuiteLabelsToTestCase(s3, t, testPath)
         IN pushTest(s4, t)

startTestCase(s, test, workerId, testPath) ==
    IF currentSuite(s) = Null
    THEN Throw(s, "startTestCase called while no suite is running")
    ELSE LET s0 == StartTest(s, test)
             t == Len(s0.results)
             s1 == [s0 EXCEPT !.results[t] =
                        [@ EXCEPT !.fullName = test.name,
                                  !.historyId = md5(testPath \o <<".">> \o test.name),
                                  !.stage = "running"]]
             s2 == IF addCodeInReport
                   THEN IF test.fn
                        THEN [setAllureReportPragmas(s1, t, test.pragmas)
                                EXCEPT !.results[t].description = "code"]
                        ELSE [s1 EXCEPT !.results[t].description = "unavailable"]
                   ELSE s1
             s3 == IF Truthy(workerId) THEN addLabel(s2, t, "thread", workerId) ELSE s2
             s4 == addSuiteLabelsToTestCase(s3, t, testPath)
         IN pushTest(s4, t)

passTestCase(s) ==
    IF currentTest(s) = Null
    THEN Throw(s, "passTestCase called while no test is running")
    ELSE LET t == currentTest(s)
             s1 == attachLabelsInConcurrent(s, t, s.labels)
         IN [s1 EXCEPT !.results[t].status = "passed"]

pendingTestCase(s, test) ==
    IF currentTest(s) = Null
    THEN Throw(s, "pendingTestCase called while no test is running")
    ELSE LET t == currentTest(s)
             s1 == attachLabelsInConcurrent(s, t, s.labels)
         IN [s1 EXCEPT !.results[t] =
                [@ EXCEPT !.status = "skipped",
                          !.statusDetails = [message |-> <<"Test is marked: ", test.mode>>,
                                             trace |-> Undef]]]

\* failTestCase without the early return for an already failed test
failTestCase_overwrite(s, error) ==
    IF currentTest(s) = Null
    THEN Throw(s, "failTestCase called while no test is running")
    ELSE LET t == currentTest(s)
             s1 == attachLabelsInConcurrent(s, t, s.labels)
             r == handleError(error)
         IN IF r.thrown THEN Throw(s1, "TypeError")
            ELSE [s1 EXCEPT !.results[t] =
                    [@ EXCEPT !.status = r.status,
                              !.statusDetails = [message |-> r.message, trace |-> r.trace]]]

failTestCase(s, error) ==
    IF currentTest(s) = Null
    THEN Throw(s, "failTestCase called while no test is running")
    ELSE LET t == currentTest(s)
             s1 == attachLabelsInConcurrent(s, t, s.labels)
             latestStatus == s1.results[t].status
             isBrokenTest == latestStatus = "broken" /\ s1.results[t].stage # "running"
         IN IF latestStatus = "failed" \/ isBrokenTest
            THEN s1
            ELSE LET r == handleError(error)
                 IN IF r.thrown THEN Throw(s1, "TypeError")
                    ELSE [s1 EXCEPT !.results[t] =
                            [@ EXCEPT !.status = r.status,
                                      !.statusDetails =
                                          [message |-> r.message, trace |-> r.trace]]]

endTest(s) ==
    IF currentTest(s) = Null
    THEN Throw(s, "endTest called while no test is running")
    ELSE LET t == currentTest(s)
         IN popTest([s EXCEPT !.results[t] =
                        [@ EXCEPT !.stage = "finished", !.ended = @ + 1],
                              !.closed = @ \o Closes("test", <<t>>)])

\* ---------------------------------------------------- the event adapter
\* handleTestEvent, one operator per case of its switch; the environment's
\* testPath and testFileName are fixed at construction
this_testPath == <<"a", "/", "b", "/", "c.spec.ts">>
this_testFileName == <<"c.spec.ts">>
JEST_WORKER_ID == Undef

run_start(s) == startTestFile(s, this_testFileName)

test_skip(s, test) ==
    LET started(x) == pendingTestCase(x, test)
    IN Then(startTestCase(s, test, JEST_WORKER_ID, this_testPath), started)

test_todo(s, test) ==
    LET started(x) == pendingTestCase(x, test)
    IN Then(startTestCase(s, test, JEST_WORKER_ID, this_testPath), started)

run_describe_start(s, describeBlock) ==
    startSuite(s, describeBlock.name, Tests(describeBlock.tests))

hook_start(s, type) == startHook(s, type)

hook_success(s) == endHook(s, NoErrorArg)

\* event.error ?? event.hook.asyncError
hook_failure(s, error, asyncError) ==
    endHook(s, IF error.kind = "undefined" THEN asyncError ELSE error)

test_fn_start(s, test) == startTestCase(s, test, JEST_WORKER_ID, this_testPath)

test_fn_success(s, errors) ==
    IF Len(errors) > 0 THEN failTestCase(s, errors[1]) ELSE passTestCase(s)

test_fn_failure(s, errors) ==
    failTestCase(s, IF Len(errors) > 0 THEN errors[1] ELSE NoErrorArg)

\* test_done without the check for late errors
test_done_noRecheck(s, errors) == endTest(s)

test_done(s, errors) ==
    Then(IF Len(errors) > 0 THEN failTestCase(s, errors[1]) ELSE s, endTest)

run_describe_finish(s) == endSuite(s)

run_finish(s) == endTestFile(s)

\* ------------------------------------------- the reporter, driven freely
NoTest == TestEntry(0, <<>>, "run", FALSE, <<>>)
NoInput == [error |-> NoErrorArg, test |-> NoTest, testPath |-> <<>>]
NotReturned == [thrown |-> FALSE, status |-> NoStatus, message |-> Undef, trace |-> Undef]
Call(op, arg) == [op |-> op, arg |-> arg]

\* the reporter after its constructor, before any event
Constructed ==
    /\ suites = <<>>
    /\ tests = <<>>
    /\ steps = <<>>
    /\ currentExecutable = Null
    /\ testNames = <<>>
    /\ labels = <<>>
    /\ groups = <<>>
    /\ results = <<>>
    /\ stepItems = <<>>
    /\ fixtures = <<>>
    /\ recorded = <<>>
    /\ closed = <<>>
    /\ thrown = NoThrow
    /\ lastCall = Call("constructor", Undef)
    /\ calls = 0
    /\ runner = [phase |-> "idle", blocks |-> <<>>, test |-> NoTest, errors |-> <<>>]
    /\ returned = NotReturned

Init ==
    /\ Constructed
    /\ given = NoInput

\* one more call of the reporter's interface, within the bound
Called ==
    /\ calls < MaxCalls
    /\ calls' = calls + 1
    /\ UNCHANGED << runner, given, returned >>

StartTestFile ==
    /\ Called
    /\ \E name \in SuiteNames \cup {Undef} :
        /\ (\E s \in {startTestFile(State, name)} : Becomes(s))
        /\ lastCall' = Call("startTestFile", name)

StartSuite ==
    /\ Called
    /\ \E name \in SuiteNames, tl \in TestLists :
        /\ (\E s \in {startSuite(State, name, tl)} : Becomes(s))
        /\ lastCall' = Call("startSuite", name)

EndSuite ==
    /\ Called
    /\ (\E s \in {endSuite(State)} : Becomes(s))
    /\ lastCall' = Call("endSuite", currentSuite(State))

EndTestFile ==
    /\ Called
    /\ (\E s \in {endTestFile(State)} : Becomes(s))
    /\ lastCall' = Call("endTestFile", Len(suites))

StartHook ==
    /\ Called
    /\ \E type \in HookTypes :
        /\ (\E s \in {startHook(State, type)} : Becomes(s))
        /\ lastCall' = Call("startHook", type)

EndHook ==
    /\ Called
    /\ \E error \in Errors \cup {NoErrorArg} :
        /\ (\E s \in {endHook(State, error)} : Becomes(s))
        /\ lastCall' = Call("endHook", error)

StartTestCase ==
    /\ Called
    /\ \E test \in Entries, workerId \in WorkerIds, testPath \in TestPaths :
        /\ (\E s \in {startTestCase(State, test, workerId, testPath)} : Becomes(s))
        /\ lastCall' = Call("startTestCase", test)

PassTestCase ==
    /\ Called
    /\ (\E s \in {passTestCase(State)} : Becomes(s))
    /\ lastCall' = Call("passTestCase", Undef)

PendingTestCase ==
    /\ Called
    /\ \E test \in Entries :
        /\ (\E s \in {pendingTestCase(State, test)} : Becomes(s))
        /\ lastCall' = Call("pendingTestCase", test)

FailTestCase ==
    /\ Called
    /\ \E error \in Errors :
        /\ (\E s \in {failTestCase(State, error)} : Becomes(s))
        /\ lastCall' = Call("failTestCase", error)

EndTest ==
    /\ Called
    /\ (\E s \in {endTest(State)} : Becomes(s))
    /\ lastCall' = Call("endTest", Undef)

\* the allure interface opens a step on the sink and pushes it
PushStep ==
    /\ Called
    /\ LET s1 == [State EXCEPT !.stepItems = Append(@, [ended |-> 0])]
       IN \E s \in {pushStep(s1, Len(s1.stepItems))} : Becomes(s)
    /\ lastCall' = Call("pushStep", Undef)

PopStep ==
    /\ Called
    /\ (\E s \in {popStep(State)} : Becomes(s))
    /\ lastCall' = Call("popStep", Undef)

\* a label recorded for a concurrent test is pushed onto reporter.labels
AddConcurrentLabel ==
    /\ Called
    /\ \E l \in LabelPool :
        /\ \E s \in {[State EXCEPT !.labels = Append(@, l)]} : Becomes(s)
        /\ lastCall' = Call("labels.push", l)

Next ==
    \/ StartTestFile
    \/ StartSuite
    \/ EndSuite
    \/ EndTestFile
    \/ StartHook
    \/ EndHook
    \/ StartTestCase
    \/ PassTestCase
    \/ PendingTestCase
    \/ FailTestCase
    \/ EndTest
    \/ PushStep
    \/ PopStep
    \/ AddConcurrentLabel

Spec == Init /\ [][Next]_vars

\* ----------------------------------------------------------- properties
TopTest == results[Top(tests)]
Reporter == << suites, tests, steps, currentExecutable, testNames, labels,
               groups, results, stepItems, fixtures >>

\* C1: a failTestCase call on a current test whose status is FAILED leaves
\* that test's status and statusDetails as they were, whatever the error.
C1_NoStatusDowngrade ==
    [][ (lastCall'.op = "failTestCase" /\ tests # <<>> /\ TopTest.status = "failed")
        => /\ tests' = tests
           /\ results'[Top(tests)].status = "failed"
           /\ results'[Top(tests)].statusDetails = TopTest.statusDetails ]_vars

\* failTestCase(GenericError) returned and the current test is FAILED: alone
\* that error classifies as BROKEN, so the call met an already failed test
C1_Witness ==
    /\ lastCall.op = "failTestCase"
    /\ lastCall.arg = GenericError
    /\ thrown = NoThrow
    /\ tests # <<>>
    /\ TopTest.status = "failed"

\* C2: once the current test is FAILED, no passTestCase, pendingTestCase or
\* failTestCase call changes its status.
C2_FailedIsFinal ==
    [][ (tests # <<>> /\ TopTest.status = "failed"
         /\ lastCall'.op \in {"passTestCase", "pendingTestCase", "failTestCase"})
        => results'[Top(tests)].status = "failed" ]_vars

\* C3: when endSuite has returned, every test and every hook executable
\* opened in the suite it closed is closed on the sink with stage FINISHED.
C3_BalancedNesting ==
    (lastCall.op = "endSuite" /\ thrown = NoThrow) =>
        /\ \A t \in DOMAIN results :
             results[t].suite = lastCall.arg =>
                results[t].stage = "finished" /\ results[t].ended >= 1
        /\ \A f \in DOMAIN fixtures :
             fixtures[f].suite = lastCall.arg => fixtures[f].stage = "finished"

\* C4: when endSuite has returned, no test opened in the closed suite is on
\* the test stack, and with no suite left the test and step stacks are empty.
C4_StacksNested ==
    (lastCall.op = "endSuite" /\ thrown = NoThrow) =>
        /\ \A i \in DOMAIN tests : results[tests[i]].suite # lastCall.arg
        /\ suites = <<>> => (tests = <<>> /\ steps = <<>>)

\* C5: when endTestFile has returned, the suite stack is empty and every
\* suite has been closed on the sink.
C5_FileFinishClosesEverything ==
    lastCall.op = "endTestFile" =>
        /\ suites = <<>>
        /\ \A g \in DOMAIN groups : groups[g].ended >= 1

\* C6: endSuite and startTestCase with no suite open, and passTestCase,
\* pendingTestCase, failTestCase and endTest with no test open, throw and
\* leave the stacks, the current executable and every report entity alone.
C6_InvalidStateOnMisuse ==
    [][ ( \/ lastCall'.op \in {"endSuite", "startTestCase"} /\ suites = <<>>
          \/ lastCall'.op \in {"passTestCase", "pendingTestCase", "failTestCase", "endTest"}
               /\ tests = <<>> )
        => (thrown' # NoThrow /\ UNCHANGED Reporter) ]_vars

\* failTestCase threw for want of a test while a closed result exists
C6_Witness ==
    /\ lastCall.op = "failTestCase"
    /\ thrown = "failTestCase called while no test is running"
    /\ tests = <<>>
    /\ results # <<>>

HookOpen ==
    currentExecutable # Null /\ fixtures[currentExecutable].stage # "finished"

\* C7: a hook executable is open from its startHook to the endHook that
\* resolves it; an endHook with none open throws and changes no executable.
C7_EndHookNeedsOpenHook ==
    [][ (lastCall'.op = "endHook" /\ ~HookOpen)
        => (thrown' # NoThrow /\ fixtures' = fixtures) ]_vars

HasLabel(t, l) == \E k \in DOMAIN results[t].labels : results[t].labels[k] = <<l.name, l.value>>

\* C8: a concurrent label with index i is attached only to the result of the
\* i-th recorded test entry.
C8_LabelGating ==
    \A t \in DOMAIN results : \A l \in LabelPool :
        HasLabel(t, l) =>
            /\ l.index + 1 \in DOMAIN recorded
            /\ recorded[l.index + 1] = results[t].entry

TimesAttached(t, l) ==
    Cardinality({k \in DOMAIN results[t].labels : results[t].labels[k] = <<l.name, l.value>>})

\* C9: each concurrent label is attached to a result at most once.
C9_LabelsDeduplicated ==
    \A t \in DOMAIN results : \A l \in LabelPool : TimesAttached(t, l) <= 1

\* --------------------------------------- the reporter, driven by a runner
\* The runner delivers its events in the order of a test file's run: run_start,
\* then per describe block run_describe_start, its beforeAll hooks, its tests
\* and nested blocks, its afterAll hooks, run_describe_finish, and run_finish
\* at the end.  A test is either reported by test_skip / test_todo alone, or
\* runs: beforeEach hooks, test_fn_start, test_fn_success or test_fn_failure
\* (neither when a beforeEach hook failed), afterEach hooks, test_done.  A
\* failure is appended to test.errors as the pair [error, asyncError] before
\* the adapter sees the event.  runner.blocks is the stack of open describe
\* blocks, each with the tests it has yet to run.
AsyncError == ErrorObject(<<"Error">>, <<>>, <<"Error", NL, " at it">>, Undef)
DescribeBlocks ==
    { [name |-> <<"ROOT_DESCRIBE_BLOCK">>, tests |-> <<EntryById(2), EntryById(1)>>],
      [name |-> <<"math">>, tests |-> <<EntryById(3), EntryById(1)>>],
      [name |-> <<"empty">>, tests |-> <<>>] }
ThrownErrors == { AssertionError, GenericError }

Block(tl, phase) == [todo |-> tl, phase |-> phase]
TopBlock == runner.blocks[Len(runner.blocks)]
SetTop(b) == [runner.blocks EXCEPT ![Len(runner.blocks)] = b]

\* one more event delivered to handleTestEvent; a handler that throws ends the run
Delivered(after, name, arg, next) ==
    /\ calls < MaxEvents
    /\ calls' = calls + 1
    /\ \E s \in {after} :
        /\ Becomes(s)
        /\ runner' = IF s.thrown # NoThrow THEN [next EXCEPT !.phase = "crashed"] ELSE next
    /\ lastCall' = Call(name, arg)
    /\ UNCHANGED << given, returned >>

InBlock == runner.phase = "describe" /\ runner.blocks # <<>>

RunStart ==
    /\ runner.phase = "idle"
    /\ Delivered(run_start(State), "run_start", Undef, [runner EXCEPT !.phase = "describe"])

RunDescribeStart ==
    /\ runner.phase = "describe"
    /\ runner.blocks # <<>> => TopBlock.phase \in {"before", "children"}
    /\ \E describeBlock \in DescribeBlocks :
        /\ (runner.blocks = <<>>) = (describeBlock.name = <<"ROOT_DESCRIBE_BLOCK">>)
        /\ Delivered(run_describe_start(State, describeBlock), "run_describe_start",
                     describeBlock.name,
                     [runner EXCEPT !.blocks =
                        Append(IF runner.blocks = <<>> THEN <<>>
                               ELSE SetTop([TopBlock EXCEPT !.phase = "children"]),
                               Block(describeBlock.tests, "before"))])

\* a beforeAll / afterAll hook of the current block starts
BlockHookStart ==
    /\ InBlock
    /\ \E type \in {"beforeAll", "afterAll"} :
        /\ type = "beforeAll" => TopBlock.phase = "before"
        /\ type = "afterAll" => TopBlock.todo = <<>>
        /\ Delivered(hook_start(State, type), "hook_start", type,
                     [runner EXCEPT !.phase = "blockHook",
                                    !.blocks = IF type = "afterAll"
                                               THEN SetTop([TopBlock EXCEPT !.phase = "after"])
                                               ELSE @])

\* a beforeEach / afterEach hook of the running test starts
TestHookStart ==
    \/ /\ runner.phase = "beforeEach"
       /\ runner.errors = <<>>
       /\ Delivered(hook_start(State, "beforeEach"), "hook_start", "beforeEach",
                    [runner EXCEPT !.phase = "beforeEachHook"])
    \/ /\ runner.phase = "afterEach"
       /\ Delivered(hook_start(State, "afterEach"), "hook_start", "afterEach",
                    [runner EXCEPT !.phase = "afterEachHook"])

HookReturn == CASE runner.phase = "blockHook" -> "describe"
                [] runner.phase = "beforeEachHook" -> "beforeEach"
                [] runner.phase = "afterEachHook" -> "afterEach"
                [] OTHER -> runner.phase

HookSuccess ==
    /\ runner.phase \in {"blockHook", "beforeEachHook", "afterEachHook"}
    /\ Delivered(hook_success(State), "hook_success", Undef,
                 [runner EXCEPT !.phase = HookReturn])

HookFailure ==
    /\ runner.phase \in {"blockHook", "beforeEachHook", "afterEachHook"}
    /\ \E error \in ThrownErrors :
        Delivered(hook_failure(State, error, AsyncError), "hook_failure", error,
                  [runner EXCEPT !.phase = HookReturn,
                                 !.errors = IF runner.phase = "blockHook" THEN @
                                            ELSE Append(@, ErrorArray(<<error, AsyncError>>))])

NextTest == Head(TopBlock.todo)
TakeTest(phase) ==
    [runner EXCEPT !.phase = phase,
                   !.test = NextTest,
                   !.errors = <<>>,
                   !.blocks = SetTop([TopBlock EXCEPT !.todo = Tail(@), !.phase = "children"])]

MayRunTest == InBlock /\ TopBlock.phase \in {"before", "children"} /\ TopBlock.todo # <<>>

TestSkip ==
    /\ MayRunTest
    /\ NextTest.mode = "skip"
    /\ Delivered(test_skip(State, NextTest), "test_skip", NextTest, TakeTest("describe"))

TestTodo ==
    /\ MayRunTest
    /\ NextTest.mode = "todo"
    /\ Delivered(test_todo(State, NextTest), "test_todo", NextTest, TakeTest("describe"))

\* test_start has an empty handler: the test is taken and its hooks may run
TestStart ==
    /\ MayRunTest
    /\ NextTest.mode = "run"
    /\ Delivered(State, "test_start", NextTest, TakeTest("beforeEach"))

TestFnStart ==
    /\ runner.phase = "beforeEach"
    /\ Delivered(test_fn_start(State, runner.test), "test_fn_start", runner.test,
                 [runner EXCEPT !.phase = IF runner.errors = <<>> THEN "fn" ELSE "afterEach"])

TestFnSuccess ==
    /\ runner.phase = "fn"
    /\ Delivered(test_fn_success(State, runner.errors), "test_fn_success", Undef,
                 [runner EXCEPT !.phase = "afterEach"])

TestFnFailure ==
    /\ runner.phase = "fn"
    /\ \E error \in ThrownErrors :
        LET errors == Append(runner.errors, ErrorArray(<<error, AsyncError>>))
        IN Delivered(test_fn_failure(State, errors), "test_fn_failure", error,
                     [runner EXCEPT !.phase = "afterEach", !.errors = errors])

TestDone ==
    /\ runner.phase = "afterEach"
    /\ Delivered(test_done(State, runner.errors), "test_done", runner.test,
                 [runner EXCEPT !.phase = "describe", !.test = NoTest, !.errors = <<>>])

RunDescribeFinish ==
    /\ InBlock
    /\ TopBlock.todo = <<>>
    /\ Delivered(run_describe_finish(State), "run_describe_finish", currentSuite(State),
                 [runner EXCEPT !.blocks = Pop(@),
                                !.phase = IF Len(runner.blocks) = 1 THEN "finishing"
                                          ELSE "describe"])

RunFinish ==
    /\ runner.phase = "finishing"
    /\ Delivered(run_finish(State), "run_finish", Undef, [runner EXCEPT !.phase = "done"])

AdapterNext ==
    \/ RunStart
    \/ RunDescribeStart
    \/ BlockHookStart
    \/ TestHookStart
    \/ HookSuccess
    \/ HookFailure
    \/ TestSkip
    \/ TestTodo
    \/ TestStart
    \/ TestFnStart
    \/ TestFnSuccess
    \/ TestFnFailure
    \/ TestDone
    \/ RunDescribeFinish
    \/ RunFinish

AdapterSpec == Init /\ [][AdapterNext]_vars

\* C10: under the adapter every started test is ended before the next test
\* is started and before its describe block finishes: no result is on the
\* test stack when a test is started or a block is finished.
C10_EveryStartIsEnded ==
    [][ lastCall'.op \in {"test_skip", "test_todo", "test_fn_start", "run_describe_finish"}
        => tests = <<>> ]_vars

\* ------------------------------------------- the error classifier alone
\* handleError applied to one failure value: an object with any subset of
\* name, message, stack and matcherResult, a thrown string, or an array of
\* arrays as test_done passes it.
ErrorNames == { Undef, <<"TypeError">> }
ErrorMessages == { Undef, <<"boom">> }
ErrorStacks ==
    { Undef,
      <<"TypeError", ": ", "boom", NL, " at x">>,
      <<"Error: ", "Expected: 1", NL, "Received: 2", NL, " at y">>,
      <<ESC, " at z">> }
MatcherMessages ==
    { Undef,
      <<"Expected: 1", NL, "Received: 2", NL, "extra line">>,
      <<"Expected: 1", NL, "Received: 2">>,
      <<"only line">>,
      <<ESC, "Expected: 1", NL, "Received: 2", NL, "more", NL, "lines">> }

ErrorObjects ==
    { ErrorObject(n, m, st, mr) :
        n \in ErrorNames, m \in ErrorMessages, st \in ErrorStacks, mr \in MatcherMessages }

ErrorValues ==
    ErrorObjects
    \cup { ErrorString(<<"boom">>) }
    \cup { ErrorArray(<<>>), ErrorArray(<<ErrorArray(<<>>)>>) }
    \cup { ErrorArray(<<ErrorArray(<<e, AsyncError>>)>>) :
            e \in {AssertionError, GenericError, BareMessageError} }

ClassifierInit ==
    /\ Constructed
    /\ \E error \in ErrorValues : given = [NoInput EXCEPT !.error = error]

HandleError ==
    /\ lastCall.op = "constructor"
    /\ \E r \in {handleError(given.error)} : returned' = r
    /\ lastCall' = Call("handleError", given.error)
    /\ UNCHANGED << suites, tests, steps, currentExecutable, testNames, labels, groups,
                    results, stepItems, fixtures, recorded, closed, thrown, calls, runner,
                    given >>

ClassifierNext == HandleError

ClassifierSpec == ClassifierInit /\ [][ClassifierNext]_vars

\* the error handleError classifies: the value itself, or the first element
\* of the flattened array
Classified == FirstError(given.error)

\* C11: classification never throws: for every failure value it returns a
\* status, a message and a trace, the message being at worst the placeholder.
C11_ClassificationNeverThrows ==
    lastCall.op = "handleError" =>
        /\ ~returned.thrown
        /\ returned.status \in {"failed", "broken"}
        /\ IsString(returned.message)
        /\ returned.message # <<>>

MatcherLines == Split(Classified.matcher, NL)
FirstTwoLines ==
    Join(SubSeq(MatcherLines, 1, IF Len(MatcherLines) >= 2 THEN 2 ELSE 1), <<NL>>)
RemainingLines ==
    Join(IF Len(MatcherLines) >= 3 THEN SubSeq(MatcherLines, 3, Len(MatcherLines)) ELSE <<>>,
         <<NL>>)
AssertionClassified ==
    /\ lastCall.op = "handleError"
    /\ Classified.kind = "object"
    /\ Classified.matcher # Undef

\* C12 as stated: for every error with a matcher result the status is FAILED,
\* the message is the first two lines of the matcher message joined by a line
\* break, and the trace is the stack when present, else the remaining lines
\* (escape sequences aside).
C12_AssertionAsStated ==
    AssertionClassified =>
        /\ ~returned.thrown
        /\ returned.status = "failed"
        /\ returned.message = replaceANSITags(FirstTwoLines)
        /\ returned.trace = replaceANSITags(IF Truthy(Classified.stack)
                                            THEN Classified.stack ELSE RemainingLines)

\* the first two elements of the split message, a missing second one empty
TwoLines ==
    Join(<<MatcherLines[1], IF Len(MatcherLines) >= 2 THEN MatcherLines[2] ELSE <<>>>>,
         <<NL>>)
WithoutFirst(trace, message) ==
    IF Includes(trace, message) THEN Replace(trace, message, <<>>) ELSE trace

\* C12: for every error with a matcher result the status is FAILED, the
\* message is the first two lines of the matcher message joined by a line
\* break (a missing second line being empty), and the trace is the stack when
\* present, else the remaining lines, with the first occurrence of the message
\* cut out of it when it contains the message; escape sequences are removed
\* from both.
C12_AssertionClassification ==
    AssertionClassified =>
        /\ ~returned.thrown
        /\ returned.status = "failed"
        /\ returned.message = replaceANSITags(TwoLines)
        /\ returned.trace =
             replaceANSITags(WithoutFirst(IF Truthy(Classified.stack)
                                          THEN Classified.stack ELSE RemainingLines,
                                          TwoLines))

\* an assertion error whose stack repeats the message has been classified:
\* the message is gone from the trace
C12_Witness ==
    /\ AssertionClassified
    /\ Classified.stack = <<"Error: ", "Expected: 1", NL, "Received: 2", NL, " at y">>
    /\ returned.message = <<"Expected: 1", NL, "Received: 2">>
    /\ returned.trace = <<"Error: ", NL, " at y">>

\* C13: for every error without a matcher result the status is BROKEN, the
\* message is the error's name, and the trace is the stack, or the error's
\* message when there is no stack, without the first occurrence of the
\* message when it contains it (escape sequences aside).
C13_GenericClassification ==
    (lastCall.op = "handleError" /\ Classified.kind = "object" /\ Classified.matcher = Undef) =>
        /\ ~returned.thrown
        /\ returned.status = "broken"
        /\ returned.message = Classified.name
        /\ returned.trace =
             replaceANSITags(WithoutFirst(IF Truthy(Classified.stack)
                                          THEN Classified.stack ELSE Classified.message,
                                          Classified.name))

\* ------------------------------------- one test file's test cases alone
\* startTestCase in a file whose testPath, and whose annotated test, were
\* fixed when the environment was constructed: the docblock of the test
\* carries one pragma, a string or (when repeated) an array of strings.
Pragmas ==
    { Pragma("issue", FALSE, << <<"JIRA-1", ",", "JIRA-2">> >>),
      Pragma("issue", FALSE, << <<"JIRA-1">> >>),
      Pragma("issue", TRUE, << <<"JIRA-1">>, <<"JIRA-2">> >>),
      Pragma("tms", FALSE, << <<"T-7">> >>),
      Pragma("tag", FALSE, << <<"smoke", ",", "fast">> >>),
      Pragma("tags", TRUE, << <<"smoke">>, <<"fast">> >>),
      Pragma("milestone", FALSE, << <<"M1">> >>),
      Pragma("severity", FALSE, << <<"critical">> >>) }

AnnotatedId == 4
AnnotatedEntries ==
    { TestEntry(AnnotatedId, <<"annotated">>, "run", TRUE, <<p>>) : p \in Pragmas }

GivenTestPaths ==
    { <<"c.spec.ts">>,
      <<"a", "/", "c.spec.ts">>,
      <<"a", "/", "b", "/", "c.spec.ts">>,
      <<"a", "/", "b", "/", "d", "/", "c.spec.ts">> }

GivenWorkerIds == { Undef, <<"2">> }

TestCaseInit ==
    /\ Constructed
    /\ \E test \in AnnotatedEntries, testPath \in GivenTestPaths :
        given = [NoInput EXCEPT !.test = test, !.testPath = testPath]

\* test_fn_start / test_skip / test_todo hand the file's testPath to startTestCase
StartGivenTestCase ==
    /\ Called
    /\ \E test \in {given.test} \cup Entries, workerId \in GivenWorkerIds :
        /\ (\E s \in {startTestCase(State, test, workerId, given.testPath)} : Becomes(s))
        /\ lastCall' = Call("startTestCase", test)

TestCaseNext ==
    \/ calls < MaxFileCalls /\ StartTestFile
    \/ calls < MaxFileCalls /\ StartGivenTestCase
    \/ calls < MaxFileCalls /\ EndTest

TestCaseSpec == TestCaseInit /\ [][TestCaseNext]_vars

\* the results opened for the annotated test, whose source text is available
AnnotatedResults == { t \in DOMAIN results : results[t].entry = AnnotatedId }
GivenPragma == given.test.pragmas[1]

\* the single values of a pragma: the elements of an array, or the parts of a
\* comma-separated string
SingleValues(p) == IF p.isArray THEN p.values ELSE Split(p.values[1], ",")
CommaFree(p) == \A i \in DOMAIN p.values : ~Includes(p.values[i], <<",">>)

\* the links and labels the annotation name and the values stand for
LinksFor(name, values) ==
    CASE name = "issue" ->
            [i \in DOMAIN values |->
                [url |-> jiraUrl \o values[i], name |-> values[i], type |-> "issue"]]
      [] name = "tms" ->
            [i \in DOMAIN values |->
                [url |-> tmsUrl \o values[i], name |-> values[i], type |-> "tms"]]
      [] OTHER -> <<>>
LabelsFor(name, values) ==
    CASE name \in {"issue", "tms"} -> <<>>
      [] name \in {"tag", "tags"} -> [i \in DOMAIN values |-> <<"tag", values[i]>>]
      [] name = "milestone" ->
            [i \in 1..(2 * Len(values)) |->
                <<IF i % 2 = 1 THEN "milestone" ELSE "epic", values[(i + 1) \div 2]>>]
      [] OTHER -> [i \in DOMAIN values |-> <<name, values[i]>>]

SuiteLabelNames == { "parentSuite", "package", "suite", "subSuite" }
IsAnnotationLabel(l) == l[1] \notin SuiteLabelNames \cup {"thread"}
IsSuiteLabel(l) == l[1] \in SuiteLabelNames
AnnotationLabels(t) == SelectSeq(results[t].labels, IsAnnotationLabel)
SuiteLabels(t) == SelectSeq(results[t].labels, IsSuiteLabel)

\* C14: an annotation with a comma-separated list of k values attaches k
\* entries to the test, one per value, an issue link's URL being the base URL
\* followed by that value.
C14_CommaValuesSplit ==
    \A t \in AnnotatedResults :
        /\ results[t].links = LinksFor(GivenPragma.name, SingleValues(GivenPragma))
        /\ AnnotationLabels(t) = LabelsFor(GivenPragma.name, SingleValues(GivenPragma))

PathSegments == Split(given.testPath, pathDelimiter)
MiddleSegments == SubSeq(PathSegments, 2, Len(PathSegments) - 1)

\* C15: every test of a file with at least one path segment has the first
\* segment as parent-suite and package label, the last segment as sub-suite
\* label, and the middle segments joined as suite label, if there are any.
C15_SuiteLabelDerivation ==
    \A t \in DOMAIN results :
        SuiteLabels(t) =
            << <<"parentSuite", PathSegments[1]>>, <<"package", PathSegments[1]>> >>
            \o (IF MiddleSegments # <<>>
                THEN << <<"suite", Join(MiddleSegments, <<" > ">>)>> >> ELSE <<>>)
            \o << <<"subSuite", PathSegments[Len(PathSegments)]>> >>

\* C16: every annotation pair applied to a test gives exactly its entries:
\* issue and tms one link with the base URL before the value, tag and tags one
\* tag label, milestone a milestone and an epic label, any other name one
\* label of that name; the test has no other link or annotation label.
C16_AnnotationMapping ==
    \A t \in AnnotatedResults :
        CommaFree(GivenPragma) =>
            /\ results[t].links = LinksFor(GivenPragma.name, GivenPragma.values)
            /\ AnnotationLabels(t) = LabelsFor(GivenPragma.name, GivenPragma.values)

\* a test annotated with a milestone has been started
C16_Witness ==
    \E t \in AnnotatedResults :
        /\ GivenPragma.name = "milestone"
        /\ AnnotationLabels(t) = << <<"milestone", <<"M1">>>>, <<"epic", <<"M1">>>> >>
        /\ results[t].links = <<>>

\* C17: in one file (one testPath) any two tests started under the same name
\* have the same historyId, whatever the state they were started in.
C17_HistoryIdDeterminism ==
    \A t1, t2 \in DOMAIN results :
        results[t1].name = results[t2].name => results[t1].historyId = results[t2].historyId

\* two entries of the same name were started in different suites, one while
\* the other was still running
C17_Witness ==
    \E t1, t2 \in DOMAIN results :
        /\ results[t1].name = results[t2].name
        /\ results[t1].entry # results[t2].entry
        /\ results[t1].suite # results[t2].suite
        /\ results[t1].historyId = results[t2].historyId
        /\ results[t1].historyId = md5(given.testPath \o <<".">> \o results[t1].name)

\* ------------------------------------------ final status under the runner
\* the status and details handleError gives the first of the test's errors
FirstErrorStatus == handleError(runner.errors[1]).status
FirstErrorDetails ==
    [message |-> handleError(runner.errors[1]).message,
     trace |-> handleError(runner.errors[1]).trace]

\* C18: the test that test_done closes was opened by test_fn_start for the
\* running entry; it is closed with status PASSED exactly if the entry's error
\* list is empty at test_done, and otherwise with the FAILED or BROKEN
\* classification of the first error and its details.
C18_FinalStatusUnderAdapter ==
    [][ (lastCall'.op = "test_done" /\ thrown' = NoThrow) =>
          /\ results[Top(tests)].entry = runner.test.id
          /\ results'[Top(tests)].stage = "finished"
          /\ results'[Top(tests)].ended = 1
          /\ (results'[Top(tests)].status = "passed") <=> (runner.errors = <<>>)
          /\ runner.errors # <<>> =>
                /\ results'[Top(tests)].status \in {"failed", "broken"}
                /\ results'[Top(tests)].status = FirstErrorStatus
                /\ results'[Top(tests)].statusDetails = FirstErrorDetails ]_vars

\* test_done has closed a test as FAILED whose afterEach hook failed with an
\* assertion error
C18_Witness ==
    /\ lastCall.op = "test_done"
    /\ thrown = NoThrow
    /\ \E t \in DOMAIN results :
        /\ results[t].entry = lastCall.arg.id
        /\ results[t].ended = 1
        /\ results[t].status = "failed"
    /\ \E f \in DOMAIN fixtures :
        /\ fixtures[f].kind = "after"
        /\ fixtures[f].status = "failed"
    /\ \A f \in DOMAIN fixtures : fixtures[f].kind = "before" => fixtures[f].status = "passed"

\* ------------------------------------------------- the order of closing
ClosedOf(kind, log) == { i \in DOMAIN log : log[i].kind = kind }

\* C19: an endSuite call that returns closes every step of the step stack,
\* then every test of the test stack, then the top suite: on the sink no test
\* is closed before a step, the suite is closed last and is the only suite
\* closed, and it is popped.
C19_EndSuiteOrder ==
    [][ (lastCall'.op = "endSuite" /\ thrown' = NoThrow) =>
          /\ \A k \in DOMAIN steps : \E i \in ClosedOf("step", closed') : closed'[i].row = steps[k]
          /\ \A k \in DOMAIN tests : \E i \in ClosedOf("test", closed') : closed'[i].row = tests[k]
          /\ \A i \in ClosedOf("step", closed') : \A j \in ClosedOf("test", closed') : i < j
          /\ \A i \in ClosedOf("step", closed') \cup ClosedOf("test", closed') :
                \A j \in ClosedOf("suite", closed') : i < j
          /\ ClosedOf("suite", closed') = {Len(closed')}
          /\ closed'[Len(closed')].row = Top(suites)
          /\ groups'[Top(suites)].ended = groups[Top(suites)].ended + 1
          /\ \A g \in DOMAIN groups : g # Top(suites) => groups'[g] = groups[g]
          /\ suites' = Pop(suites) ]_vars

\* endSuite has closed an open step, then an open test, then the suite
C19_Witness ==
    /\ lastCall.op = "endSuite"
    /\ thrown = NoThrow
    /\ Len(closed) = 3
    /\ closed[1].kind = "step"
    /\ closed[2].kind = "test"
    /\ closed[3] = [kind |-> "suite", row |-> lastCall.arg]

\* ------------------------------------------------------------- hooks
\* the executable startHook adds for a hook type
OpenedFixture(type) ==
    [kind |-> IF type \in {"beforeAll", "beforeEach"} THEN "before" ELSE "after",
     suite |-> Top(suites), stage |-> "pending", status |-> NoStatus,
     statusDetails |-> EmptyDetails]

\* C20: with a suite open startHook adds a before or an after executable (by
\* the prefix of the type) to the current suite and makes it the current
\* executable; with no suite open it changes nothing; the endHook that
\* follows a startHook finishes that executable, as PASSED when no error is
\* given, and with the classifier's FAILED or BROKEN and details otherwise.
C20_HookLifecycle ==
    [][ /\ lastCall'.op = "startHook" =>
            /\ thrown' = NoThrow
            /\ IF suites # <<>>
               THEN /\ fixtures' = Append(fixtures, OpenedFixture(lastCall'.arg))
                    /\ currentExecutable' = Len(fixtures')
                    /\ UNCHANGED << suites, tests, steps >>
               ELSE UNCHANGED Reporter
        /\ (lastCall.op = "startHook" /\ suites # <<>> /\ lastCall'.op = "endHook") =>
            /\ thrown' = NoThrow
            /\ currentExecutable' = currentExecutable
            /\ fixtures'[currentExecutable].stage = "finished"
            /\ IF lastCall'.arg = NoErrorArg
               THEN fixtures'[currentExecutable].status = "passed"
               ELSE /\ ~handleError(lastCall'.arg).thrown
                    /\ fixtures'[currentExecutable].status \in {"failed", "broken"}
                    /\ fixtures'[currentExecutable].status = handleError(lastCall'.arg).status
                    /\ fixtures'[currentExecutable].statusDetails =
                         [message |-> handleError(lastCall'.arg).message,
                          trace |-> handleError(lastCall'.arg).trace] ]_vars

\* ------------------------------------------------ closes and stages
\* C21: no result opened by startTestCase is closed on the sink more than
\* once, whatever sequence of reporter calls is made.
C21_TestClosedAtMostOnce ==
    \A t \in DOMAIN results : results[t].ended <= 1

\* C22: every test on the test stack has stage RUNNING, and failTestCase on a
\* current test whose status is BROKEN classifies the error and overwrites
\* the status and the details with the classification.
C22_StackedTestsRunning ==
    [][ /\ \A i \in DOMAIN tests' : results'[tests'[i]].stage = "running"
        /\ (lastCall'.op = "failTestCase" /\ tests # <<>> /\ TopTest.status = "broken") =>
              /\ thrown' = NoThrow
              /\ results'[Top(tests)].status = handleError(lastCall'.arg).status
              /\ results'[Top(tests)].statusDetails =
                   [message |-> handleError(lastCall'.arg).message,
                    trace |-> handleError(lastCall'.arg).trace] ]_vars

====
